---- MODULE Spec2Model ----
(***************************************************************************)
(* Model of tailslint: the Tailscale and Docker command-line wrappers      *)
(* (src/src/tailscale.rs, src/src/docker.rs), the window state kept by     *)
(* main (src/src/main.rs) and the Event Bridge of the specification.       *)
(*                                                                         *)
(* Text is a TLA+ string; the Rust string functions the wrappers use are   *)
(* operators that work on it character by character.  The outcome of an    *)
(* external command is drawn from a bounded set on every call.             *)
(* String::from_utf8_lossy changes only byte sequences that are not valid  *)
(* UTF-8; every text drawn here is ASCII, which it returns unchanged.      *)
(***************************************************************************)
EXTENDS Integers, Sequences, FiniteSets, TLC

VARIABLES
    world,         \* service layer: what the external commands will answer
    op,            \* service layer: the operation called, "none" before the call
    runs,          \* service layer: the commands that call ran, with their outcomes
    ret,           \* service layer: what that call returned
    is_on,         \* MainWindow.is_on
    machines,      \* MainWindow.machines
    copy_success,  \* MainWindow.copy_success
    timers,        \* pending single-shot timers of the copy callback
    clipboard,     \* contents of the system clipboard
    shown,         \* what `tailscale status` answered to the status() call of the
                   \* last update_tailscale_state, None when it made no such call
    pc,            \* main: "start" before its first update, then "run"
    chan,          \* Event Bridge: messages in flight
    sent,          \* Event Bridge: every message sent, in send order
    consumed,      \* Event Bridge: every message processed, in order
    running        \* Event Bridge: the consumer loop is still scheduled

vars == <<world, op, runs, ret, is_on, machines, copy_success, timers, clipboard, shown,
          pc, chan, sent, consumed, running>>

svcVars == <<world, op, runs, ret>>
appVars == <<is_on, machines, copy_success, timers, clipboard, shown, pc>>
bridgeVars == <<chan, sent, consumed, running>>

(***************************************************************************)
(* Bounds                                                                  *)
(***************************************************************************)
\* lines in a text written by `tailscale status`
MaxTsLines == 3
\* lines in a text written by `systemctl status docker`
MaxDkLines == 3
\* single-shot timers of the copy callback pending at once
MaxTimers == 2
\* messages sent through the Event Bridge
MaxMsgs == 4

(***************************************************************************)
(* Rust string functions                                                   *)
(***************************************************************************)
Char(s, i) == SubSeq(s, i, i)

\* char::is_whitespace, on the characters the texts use
IsWhitespace(c) == c \in {" ", "\t", "\n", "\r"}

RECURSIVE TrimStart(_)
TrimStart(s) ==
    IF Len(s) > 0 /\ IsWhitespace(Char(s, 1))
    THEN TrimStart(SubSeq(s, 2, Len(s)))
    ELSE s

RECURSIVE TrimEnd(_)
TrimEnd(s) ==
    IF Len(s) > 0 /\ IsWhitespace(Char(s, Len(s)))
    THEN TrimEnd(SubSeq(s, 1, Len(s) - 1))
    ELSE s

\* str::trim
Trim(s) == TrimEnd(TrimStart(s))

\* position of the first "\n" of s at or after i, 0 when there is none
RECURSIVE FindNewline(_, _)
FindNewline(s, i) ==
    IF i > Len(s) THEN 0
    ELSE IF Char(s, i) = "\n" THEN i
    ELSE FindNewline(s, i + 1)

\* a line without its "\n" loses the "\r" before it as well
StripCR(l) ==
    IF Len(l) > 0 /\ Char(l, Len(l)) = "\r" THEN SubSeq(l, 1, Len(l) - 1) ELSE l

\* str::lines: split at "\n" or "\r\n"; no empty line after a final line ending
RECURSIVE Lines(_)
Lines(s) ==
    IF s = "" THEN <<>>
    ELSE LET n == FindNewline(s, 1) IN
         IF n = 0 THEN <<s>>
         ELSE <<StripCR(SubSeq(s, 1, n - 1))>> \o Lines(SubSeq(s, n + 1, Len(s)))

\* length of the run of non-whitespace characters s starts with
RECURSIVE TokenLen(_, _)
TokenLen(s, i) ==
    IF i > Len(s) \/ IsWhitespace(Char(s, i)) THEN i - 1 ELSE TokenLen(s, i + 1)

\* str::split_whitespace: the non-empty runs of non-whitespace characters
RECURSIVE SplitWhitespace(_)
SplitWhitespace(s) ==
    LET t == TrimStart(s) IN
    IF t = "" THEN <<>>
    ELSE LET n == TokenLen(t, 1) IN
         <<SubSeq(t, 1, n)>> \o SplitWhitespace(SubSeq(t, n + 1, Len(t)))

\* [&str]::join
RECURSIVE Join(_, _)
Join(parts, sep) ==
    IF parts = <<>> THEN ""
    ELSE IF Len(parts) = 1 THEN parts[1]
    ELSE parts[1] \o sep \o Join(Tail(parts), sep)

StartsWith(s, p) == Len(s) >= Len(p) /\ SubSeq(s, 1, Len(p)) = p

\* str::contains
Contains(s, p) ==
    \E i \in 1..(Len(s) - Len(p) + 1) : SubSeq(s, i, i + Len(p) - 1) = p

(***************************************************************************)
(* Option and Result                                                       *)
(***************************************************************************)
None == <<>>
Some(v) == <<v>>

Ok(v) == [ok |-> TRUE, val |-> v, err |-> "", msg |-> ""]
Err(e, m) == [ok |-> FALSE, val |-> <<>>, err |-> e, msg |-> m]

\* Result::unwrap_or
UnwrapOr(r, d) == IF r.ok THEN r.val ELSE d

\* str::strip_prefix
StripPrefix(s, p) == IF StartsWith(s, p) THEN Some(SubSeq(s, Len(p) + 1, Len(s))) ELSE None

(***************************************************************************)
(* Command Runner: std::process::Command::output                           *)
(***************************************************************************)
\* the process could not be spawned: output() returns Err(io::Error)
SpawnFailed == [spawned |-> FALSE, success |-> FALSE, stdout |-> "", stderr |-> ""]

Exited(success, stdout, stderr) ==
    [spawned |-> TRUE, success |-> success, stdout |-> stdout, stderr |-> stderr]

Run(cmd, out) == [cmd |-> cmd, out |-> out]

(***************************************************************************)
(* src/src/tailscale.rs                                                    *)
(***************************************************************************)
StatusCmd == <<"tailscale", "status">>
UpCmd == <<"tailscale", "up">>
DownCmd == <<"tailscale", "down">>

StoppedText == "Tailscale is stopped."

\* faulty variant: the comparison without the trim
IsStoppedText_Untrimmed(stdout) == stdout = StoppedText

\* the comparison both status() and is_enabled() make on stdout
IsStoppedText(stdout) == Trim(stdout) = StoppedText

\* faulty variant: a line of exactly 4 parts is skipped
IsMachineLine_MoreThan4(parts) == Len(parts) > 4

\* a valid machine line has at least 4 parts: IP, Hostname, User, OS
IsMachineLine(parts) == Len(parts) >= 4

\* parts[4..].join(" ")
DetailsOf(parts) == Join(SubSeq(parts, 5, Len(parts)), " ")

IsOnline(details) == ~Contains(details, "offline")

\* the MachineData status() builds from the parts of one line
MachineOf(parts) ==
    LET details == DetailsOf(parts) IN
    [ip |-> parts[1], hostname |-> parts[2], user |-> parts[3], os |-> parts[4],
     online |-> IsOnline(details), details |-> details]

\* faulty variant: every machine is pushed
InsertMachine_Push(ms, m) == Append(ms, m)

\* machines.insert(0, machine) when online, machines.push(machine) otherwise
InsertMachine(ms, m) == IF m.online THEN <<m>> \o ms ELSE Append(ms, m)

\* the loop of status() over stdout.lines(), machines being the Vec so far
RECURSIVE ParseMachines(_, _)
ParseMachines(lines, ms) ==
    IF lines = <<>> THEN ms
    ELSE LET parts == SplitWhitespace(Head(lines)) IN
         IF ~IsMachineLine(parts) THEN ParseMachines(Tail(lines), ms)
         ELSE ParseMachines(Tail(lines), InsertMachine(ms, MachineOf(parts)))

\* Tailscale::up and Tailscale::down, given the outcome of their command
TsUpDown(o) ==
    IF ~o.spawned THEN Err("CommandError", "")
    ELSE IF ~o.success THEN Err("CommandFailed", o.stderr)
    ELSE Ok(<<>>)

\* Tailscale::status, given the outcome of `tailscale status`
TsStatus(o) ==
    IF ~o.spawned THEN Err("CommandError", "")
    ELSE IF ~o.success THEN Err("CommandFailed", o.stderr)
    ELSE IF IsStoppedText(o.stdout) THEN Err("DaemonStopped", "")
    ELSE Ok(ParseMachines(Lines(o.stdout), <<>>))

\* Tailscale::online_machines
TsOnlineMachines(o) ==
    LET r == TsStatus(o) IN
    IF ~r.ok THEN r ELSE Ok(SelectSeq(r.val, LAMBDA m : m.online))

\* faulty variant: every non-zero exit is an error
TsIsEnabled_NoStderrCheck(o) ==
    IF ~o.spawned THEN Err("CommandError", "")
    ELSE IF ~o.success THEN Err("CommandFailed", o.stderr)
    ELSE Ok(~IsStoppedText(o.stdout))

\* Tailscale::is_enabled, given the outcome of `tailscale status`
TsIsEnabled(o) ==
    IF ~o.spawned THEN Err("CommandError", "")
    ELSE IF ~o.success
    THEN IF \/ Contains(o.stderr, "Tailscale is not running")
            \/ Contains(o.stderr, "Cannot connect to the Tailscale daemon")
         THEN Ok(FALSE)
         ELSE Err("CommandFailed", o.stderr)
    ELSE Ok(~IsStoppedText(o.stdout))

\* faulty variant: the error of is_enabled() is returned, as with `?`
TsToggle_Propagate(o1, o2) ==
    LET e == TsIsEnabled(o1) IN
    IF ~e.ok THEN [ret |-> e, runs |-> <<Run(StatusCmd, o1)>>]
    ELSE IF e.val
    THEN [ret |-> TsUpDown(o2), runs |-> <<Run(StatusCmd, o1), Run(DownCmd, o2)>>]
    ELSE [ret |-> TsUpDown(o2), runs |-> <<Run(StatusCmd, o1), Run(UpCmd, o2)>>]

\* Tailscale::toggle: o1 is the outcome of the status command is_enabled() runs,
\* o2 the outcome of the up or down command
TsToggle(o1, o2) ==
    IF UnwrapOr(TsIsEnabled(o1), FALSE)
    THEN [ret |-> TsUpDown(o2), runs |-> <<Run(StatusCmd, o1), Run(DownCmd, o2)>>]
    ELSE [ret |-> TsUpDown(o2), runs |-> <<Run(StatusCmd, o1), Run(UpCmd, o2)>>]

(***************************************************************************)
(* src/src/docker.rs                                                       *)
(***************************************************************************)
DkStatusCmd == <<"systemctl", "status", "docker">>
DkStartCmd == <<"sudo", "systemctl", "start", "docker">>
DkStopCmd == <<"sudo", "systemctl", "stop", "docker">>

Digits == "0123456789"

IsDigit(c) == \E d \in 1..10 : Char(Digits, d) = c

DigitVal(c) == (CHOOSE d \in 1..10 : Char(Digits, d) = c) - 1

AllDigits(s) == \A i \in 1..Len(s) : IsDigit(Char(s, i))

RECURSIVE StripZeros(_)
StripZeros(s) ==
    IF Len(s) > 1 /\ Char(s, 1) = "0" THEN StripZeros(SubSeq(s, 2, Len(s))) ELSE s

\* a <= b for two numerals of the same length
RECURSIVE NumeralLeq(_, _)
NumeralLeq(a, b) ==
    IF a = "" THEN TRUE
    ELSE IF DigitVal(Char(a, 1)) < DigitVal(Char(b, 1)) THEN TRUE
    ELSE IF DigitVal(Char(a, 1)) > DigitVal(Char(b, 1)) THEN FALSE
    ELSE NumeralLeq(SubSeq(a, 2, Len(a)), SubSeq(b, 2, Len(b)))

\* u32::MAX, as a numeral
U32Max == "4294967295"

FitsU32(n) == Len(n) < Len(U32Max) \/ (Len(n) = Len(U32Max) /\ NumeralLeq(n, U32Max))

\* str::parse::<u32>().ok(): an optional "+", then decimal digits, at most
\* u32::MAX.  The number is kept as its numeral without leading zeros.
ParseU32(tok) ==
    LET body == IF Len(tok) > 1 /\ Char(tok, 1) = "+" THEN SubSeq(tok, 2, Len(tok)) ELSE tok
    IN  IF body = "" \/ ~AllDigits(body) THEN None
        ELSE IF ~FitsU32(StripZeros(body)) THEN None
        ELSE Some(StripZeros(body))

\* Docker::parse_line_value
ParseLineValue(line, key) ==
    LET v == StripPrefix(line, key) IN
    IF v = None THEN None ELSE Some(Trim(v[1]))

\* faulty variant: the state is compared, not searched
IsRunningState_Exact(value) == value = "active (running)"

\* status.active_state.contains("(running)")
IsRunningState(value) == Contains(value, "(running)")

\* faulty variant: the whole value is parsed, not its first token
ParsePid_WholeValue(value) == ParseU32(value)

\* value.split_whitespace().next().and_then(|v| v.parse().ok())
ParsePid(value) ==
    LET toks == SplitWhitespace(value) IN
    IF toks = <<>> THEN None ELSE ParseU32(toks[1])

\* DockerStatus { raw_output, ..Default::default() }
NewDockerStatus(stdout) ==
    [raw_output |-> stdout, active_state |-> "", is_active |-> FALSE,
     loaded_state |-> "", main_pid |-> None, memory_peak |-> None, cpu_time |-> None]

\* the body of the loop of Docker::status for one line
DkApplyLine(st, line) ==
    LET trimmed == Trim(line)
        active == ParseLineValue(trimmed, "Active:")
        loaded == ParseLineValue(trimmed, "Loaded:")
        pid    == ParseLineValue(trimmed, "Main PID:")
        mem    == ParseLineValue(trimmed, "Mem peak:")
        cpu    == ParseLineValue(trimmed, "CPU:")
    IN  IF active # None
        THEN [st EXCEPT !.active_state = active[1],
                        !.is_active = IsRunningState(active[1])]
        ELSE IF loaded # None THEN [st EXCEPT !.loaded_state = loaded[1]]
        ELSE IF pid # None THEN [st EXCEPT !.main_pid = ParsePid(pid[1])]
        ELSE IF mem # None THEN [st EXCEPT !.memory_peak = Some(mem[1])]
        ELSE IF cpu # None THEN [st EXCEPT !.cpu_time = Some(cpu[1])]
        ELSE st

RECURSIVE DkParseLines(_, _)
DkParseLines(lines, st) ==
    IF lines = <<>> THEN st
    ELSE DkParseLines(Tail(lines), DkApplyLine(st, Head(lines)))

\* faulty variant: a non-zero exit is an error, as in start() and stop()
DkStatus_FailOnExit(o) ==
    IF ~o.spawned THEN Err("CommandError", "")
    ELSE IF ~o.success THEN Err("CommandFailed", o.stderr)
    ELSE Ok(DkParseLines(Lines(o.stdout), NewDockerStatus(o.stdout)))

\* Docker::status, given the outcome of `systemctl status docker`
DkStatus(o) ==
    IF ~o.spawned THEN Err("CommandError", "")
    ELSE Ok(DkParseLines(Lines(o.stdout), NewDockerStatus(o.stdout)))

\* Docker::is_active
DkIsActive(o) ==
    LET r == DkStatus(o) IN
    IF ~r.ok THEN r ELSE Ok(r.val.is_active)

\* Docker::start and Docker::stop, given the outcome of their command
DkStartStop(o) ==
    IF ~o.spawned THEN Err("CommandError", "")
    ELSE IF ~o.success THEN Err("CommandFailed", o.stderr)
    ELSE Ok(<<>>)

\* Docker::toggle: o1 is the outcome of the status command is_active() runs,
\* o2 the outcome of the start or stop command
DkToggle(o1, o2) ==
    LET a == DkIsActive(o1) IN
    IF ~a.ok THEN [ret |-> a, runs |-> <<Run(DkStatusCmd, o1)>>]
    ELSE IF a.val
    THEN [ret |-> DkStartStop(o2), runs |-> <<Run(DkStatusCmd, o1), Run(DkStopCmd, o2)>>]
    ELSE [ret |-> DkStartStop(o2), runs |-> <<Run(DkStatusCmd, o1), Run(DkStartCmd, o2)>>]

(***************************************************************************)
(* What the external commands answer                                       *)
(***************************************************************************)
SeqsUpTo(S, n) == UNION {[1..k -> S] : k \in 0..n}

\* the lines joined by "\n", with and without a final line ending
TextsOf(lineSet, n) ==
    {Join(ls, "\n") \o e : ls \in SeqsUpTo(lineSet, n), e \in {"", "\n"}}

TsLineSet ==
    { "100.1.1.1 host-a alice linux -",
      "100.1.1.2 host-b alice linux offline",
      "100.1.1.3  host-c\tbob macOS idle, offline 1d",
      "100.1.1.4 host-d bob linux",
      "100.1.1.5 offline-e eve linux off line",
      "",
      StoppedText }

TsTexts == TextsOf(TsLineSet, MaxTsLines)

\* the texts of at most one line; stderr, the exit status and the outcome of
\* up and down vary with these
TsShortTexts == TextsOf(TsLineSet, 1)

TsStderrs ==
    { "",
      "Tailscale is not running",
      "failed: Cannot connect to the Tailscale daemon.\n",
      "permission denied" }

TsStatusOutcomes ==
    {SpawnFailed}
    \cup {Exited(TRUE, out, "") : out \in TsTexts}
    \cup {Exited(b, out, e) : b \in BOOLEAN, out \in TsShortTexts, e \in TsStderrs}

CtlOk == Exited(TRUE, "", "")

CtlOutcomes == {SpawnFailed, CtlOk, Exited(FALSE, "", "access denied")}

DkLineSet ==
    { "     Active: active (running)",
      "Active: active (running) since Mon",
      "     Active: inactive (dead)",
      "   Main PID: 4821 (dockerd)",
      "Main PID: notanumber",
      "Main PID: 4294967296 (big)",
      "Loaded: loaded (/lib/docker.service)",
      "Mem peak: 128.4M",
      "TriggeredBy: docker.socket" }

\* systemctl ends every line it writes with "\n"
RECURSIVE Unlines(_)
Unlines(ls) == IF ls = <<>> THEN "" ELSE Head(ls) \o "\n" \o Unlines(Tail(ls))

DkTexts == {Unlines(ls) : ls \in SeqsUpTo(DkLineSet, MaxDkLines)}

DkShortTexts == {Unlines(ls) : ls \in SeqsUpTo(DkLineSet, 1)}

DkStatusOutcomes ==
    {SpawnFailed}
    \cup {Exited(b, out, "") : b \in BOOLEAN, out \in DkTexts}
    \cup {Exited(FALSE, out, "Unit docker.service could not be found.") : out \in DkShortTexts}

(***************************************************************************)
(* Service layer: the external commands' answers are fixed at the start,   *)
(* then one operation of a wrapper is called                               *)
(***************************************************************************)
\* the status command's answer (status) and the start or stop command's (ctl)
WorldsOf(svc, statusOutcomes, shortTexts) ==
    {w \in [svc : {svc}, status : statusOutcomes, ctl : CtlOutcomes] :
        w.ctl = CtlOk \/ ~w.status.spawned \/ w.status.stdout \in shortTexts}

Worlds ==
    WorldsOf("tailscale", TsStatusOutcomes, TsShortTexts)
    \cup WorldsOf("docker", DkStatusOutcomes, DkShortTexts)

SvcInit == world \in Worlds /\ op = "none" /\ runs = <<>> /\ ret = Ok(<<>>)

SvcIdle == world = <<>> /\ op = "none" /\ runs = <<>> /\ ret = Ok(<<>>)

Called(name, rs, r) ==
    /\ op' = name /\ runs' = rs /\ ret' = r
    /\ UNCHANGED <<world, appVars, bridgeVars>>

CallTsStatus ==
    /\ op = "none" /\ world.svc = "tailscale"
    /\ Called("Tailscale::status", <<Run(StatusCmd, world.status)>>,
              TsStatus(world.status))

CallTsOnlineMachines ==
    /\ op = "none" /\ world.svc = "tailscale"
    /\ Called("Tailscale::online_machines", <<Run(StatusCmd, world.status)>>,
              TsOnlineMachines(world.status))

CallTsIsEnabled ==
    /\ op = "none" /\ world.svc = "tailscale"
    /\ Called("Tailscale::is_enabled", <<Run(StatusCmd, world.status)>>,
              TsIsEnabled(world.status))

CallTsUp ==
    /\ op = "none" /\ world.svc = "tailscale"
    /\ Called("Tailscale::up", <<Run(UpCmd, world.ctl)>>, TsUpDown(world.ctl))

CallTsDown ==
    /\ op = "none" /\ world.svc = "tailscale"
    /\ Called("Tailscale::down", <<Run(DownCmd, world.ctl)>>, TsUpDown(world.ctl))

CallTsToggle ==
    /\ op = "none" /\ world.svc = "tailscale"
    /\ LET t == TsToggle(world.status, world.ctl) IN
       Called("Tailscale::toggle", t.runs, t.ret)

CallDkStatus ==
    /\ op = "none" /\ world.svc = "docker"
    /\ Called("Docker::status", <<Run(DkStatusCmd, world.status)>>,
              DkStatus(world.status))

CallDkIsActive ==
    /\ op = "none" /\ world.svc = "docker"
    /\ Called("Docker::is_active", <<Run(DkStatusCmd, world.status)>>,
              DkIsActive(world.status))

CallDkStart ==
    /\ op = "none" /\ world.svc = "docker"
    /\ Called("Docker::start", <<Run(DkStartCmd, world.ctl)>>, DkStartStop(world.ctl))

CallDkStop ==
    /\ op = "none" /\ world.svc = "docker"
    /\ Called("Docker::stop", <<Run(DkStopCmd, world.ctl)>>, DkStartStop(world.ctl))

CallDkToggle ==
    /\ op = "none" /\ world.svc = "docker"
    /\ LET t == DkToggle(world.status, world.ctl) IN
       Called("Docker::toggle", t.runs, t.ret)

(***************************************************************************)
(* src/src/main.rs: the window and its callbacks                           *)
(***************************************************************************)
\* MainWindow::new(): is_on false, machines [], copy_success false
AppInit ==
    /\ is_on = FALSE /\ machines = <<>> /\ copy_success = FALSE
    /\ timers = 0 /\ clipboard = "" /\ shown = None /\ pc = "start"

\* faulty variant: only the online machines are shown
MachinesFor_OnlineOnly(enabled, o) ==
    IF enabled THEN UnwrapOr(TsOnlineMachines(o), <<>>) ELSE <<>>

\* match enabled { false => vec![], true => Tailscale::status().unwrap_or(vec![]) }
MachinesFor(enabled, o) ==
    IF enabled THEN UnwrapOr(TsStatus(o), <<>>) ELSE <<>>

\* update_tailscale_state: o1 is what `tailscale status` answers to is_enabled(),
\* o2 what it answers to status(), which runs only when enabled
UpdateTailscaleState(o1, o2) ==
    LET enabled == UnwrapOr(TsIsEnabled(o1), FALSE) IN
    /\ is_on' = enabled
    /\ machines' = MachinesFor(enabled, o2)
    /\ shown' = IF enabled THEN Some(o2) ELSE None

\* what `tailscale status` answers while the window is open
AppTexts ==
    { "",
      "100.1.1.1 host-a alice linux -\n",
      "100.1.1.1 host-a alice linux -\n100.1.1.2 host-b alice linux offline\n",
      "100.1.1.2 host-b alice linux offline\n\n# Health check:\n100.1.1.4 host-d bob linux\n100.1.1.1 host-a alice linux -\n",
      "Tailscale is stopped.\n" }

AppStatusOutcomes ==
    {SpawnFailed, Exited(FALSE, "", "Tailscale is not running"),
     Exited(FALSE, "", "permission denied")}
    \cup {Exited(TRUE, out, "") : out \in AppTexts}

\* main, line 186: the update before the event loop starts
Startup ==
    /\ pc = "start"
    /\ \E o1, o2 \in AppStatusOutcomes : UpdateTailscaleState(o1, o2)
    /\ pc' = "run"
    /\ UNCHANGED <<copy_success, timers, clipboard, svcVars, bridgeVars>>

\* the on_toggle callback: Tailscale::toggle(), its result dropped, then the update
OnToggle ==
    /\ pc = "run"
    /\ \E t1 \in AppStatusOutcomes, t2 \in CtlOutcomes, o1, o2 \in AppStatusOutcomes :
          /\ TsToggle(t1, t2).ret.ok \in BOOLEAN
          /\ UpdateTailscaleState(o1, o2)
    /\ UNCHANGED <<pc, copy_success, timers, clipboard, svcVars, bridgeVars>>

\* the on_copy_machine_ip callback, for the tile of machine i; setOk is whether
\* cli_clipboard::set_contents succeeded
OnCopyMachineIp ==
    /\ pc = "run"
    /\ timers < MaxTimers
    /\ \E i \in DOMAIN machines, setOk \in BOOLEAN :
          IF setOk
          THEN /\ clipboard' = machines[i].ip
               /\ copy_success' = TRUE
               /\ timers' = timers + 1
          ELSE UNCHANGED <<clipboard, copy_success, timers>>
    /\ UNCHANGED <<pc, is_on, machines, shown, svcVars, bridgeVars>>

\* a single-shot timer of the copy callback fires
TimerFires ==
    /\ timers > 0
    /\ timers' = timers - 1
    /\ copy_success' = FALSE
    /\ UNCHANGED <<pc, is_on, machines, shown, clipboard, svcVars, bridgeVars>>

AppNext == Startup \/ OnToggle \/ OnCopyMachineIp \/ TimerFires

(***************************************************************************)
(* Event Bridge (specification, 4.4): an unbounded FIFO channel of         *)
(* AppMessage from any number of producers to one consumer                 *)
(***************************************************************************)
Producers == {"callback-a", "callback-b"}

AppMessages == {"Toggle", "Refresh", "Quit", "SelectItem"}

BridgeInit == chan = <<>> /\ sent = <<>> /\ consumed = <<>> /\ running = TRUE

\* a producer sends: the message is enqueued, whether or not the consumer runs
Send ==
    /\ Len(sent) < MaxMsgs
    /\ \E p \in Producers, m \in AppMessages :
          LET msg == [id |-> Len(sent) + 1, from |-> p, msg |-> m] IN
          /\ chan' = Append(chan, msg)
          /\ sent' = Append(sent, msg)
    /\ UNCHANGED <<consumed, running, svcVars, appVars>>

\* faulty variant: the loop goes on after Quit
StaysRunning_AfterQuit(m) == TRUE

\* Quit is terminal: the consumer loop stops scheduling iterations
StaysRunning(m) == m.msg # "Quit"

\* the consumer, while scheduled, takes one message and processes it
Receive ==
    /\ running
    /\ chan # <<>>
    /\ consumed' = Append(consumed, Head(chan))
    /\ chan' = Tail(chan)
    /\ running' = StaysRunning(Head(chan))
    /\ UNCHANGED <<sent, svcVars, appVars>>

BridgeNext == Send \/ Receive

Init == SvcInit /\ AppInit /\ BridgeInit

Next ==
    \/ CallTsStatus
    \/ CallTsOnlineMachines
    \/ CallTsIsEnabled
    \/ CallTsUp
    \/ CallTsDown
    \/ CallTsToggle
    \/ CallDkStatus
    \/ CallDkIsActive
    \/ CallDkStart
    \/ CallDkStop
    \/ CallDkToggle

Spec == Init /\ [][Next]_vars

\* the window of main.rs alone
InitApp == SvcIdle /\ AppInit /\ BridgeInit

SpecApp == InitApp /\ [][AppNext]_vars

\* the Event Bridge alone
InitBridge == SvcIdle /\ AppInit /\ BridgeInit

SpecBridge == InitBridge /\ [][BridgeNext]_vars

(***************************************************************************)
(* Properties of the service layer, checked under Spec                     *)
(***************************************************************************)
\* the outcome of the first command the call ran
Cmd == runs[1].out

Last(q) == q[Len(q)]

Reverse(q) == [i \in 1..Len(q) |-> q[Len(q) + 1 - i]]

Count(q, x) == Cardinality({i \in DOMAIN q : q[i] = x})

Range(q) == {q[i] : i \in DOMAIN q}

\* the tokens of every line of text that has at least 4 of them, in line order
PeerLines(text) ==
    LET ls == Lines(text)
        toks == [i \in DOMAIN ls |-> SplitWhitespace(ls[i])]
    IN  SelectSeq(toks, LAMBDA p : Len(p) >= 4)

\* what a line of tokens p is expected to give
ExpectedPeer(p) ==
    LET rest == Join(SubSeq(p, 5, Len(p)), " ") IN
    [ip |-> p[1], hostname |-> p[2], user |-> p[3], os |-> p[4],
     online |-> ~Contains(rest, "offline"), details |-> rest]

ExpectedPeers(text) ==
    LET ps == PeerLines(text) IN [i \in DOMAIN ps |-> ExpectedPeer(ps[i])]

PeerListReturned ==
    /\ op = "Tailscale::status"
    /\ Cmd.spawned /\ Cmd.success
    /\ Trim(Cmd.stdout) # "Tailscale is stopped."

\* C1: for a peer-status text that is not the stopped literal, status() returns
\* one MachineData per line of at least 4 tokens and none for any other line,
\* online being "the joined tokens after the fourth do not contain offline",
\* and every online entry comes before every offline entry.
C1_OnePeerPerLineOnlineFirst ==
    PeerListReturned =>
        LET exp == ExpectedPeers(Cmd.stdout) IN
        /\ ret.ok
        /\ Len(ret.val) = Len(exp)
        /\ \A i \in DOMAIN exp : Count(ret.val, exp[i]) = Count(exp, exp[i])
        /\ \A i, j \in DOMAIN ret.val :
              (i < j /\ ret.val[j].online) => ret.val[i].online

\* a text with a skipped line, an online peer and an offline peer was parsed
C1_Witness ==
    /\ PeerListReturned /\ ret.ok
    /\ Len(Lines(Cmd.stdout)) > Len(ret.val)
    /\ \E i, j \in DOMAIN ret.val : ret.val[i].online /\ ~ret.val[j].online
    /\ \E i \in DOMAIN ret.val : ret.val[i].details = "" /\ ret.val[i].online

\* C10: in the sequence status() returns, the online peers are in the reverse
\* of their line order and the offline peers are in their line order.
C10_OnlineReversedOfflineInOrder ==
    PeerListReturned =>
        LET exp == ExpectedPeers(Cmd.stdout) IN
        /\ ret.ok
        /\ SelectSeq(ret.val, LAMBDA m : m.online)
             = Reverse(SelectSeq(exp, LAMBDA m : m.online))
        /\ SelectSeq(ret.val, LAMBDA m : ~m.online)
             = SelectSeq(exp, LAMBDA m : ~m.online)

\* two different online peers were parsed, an offline one between them
C10_Witness ==
    /\ PeerListReturned /\ ret.ok
    /\ Len(ret.val) = 3
    /\ ret.val[1].online /\ ret.val[2].online /\ ~ret.val[3].online
    /\ ret.val[1].ip # ret.val[2].ip
    /\ ExpectedPeers(Cmd.stdout)[2] = ret.val[3]

\* C4: a successful status output that trims to "Tailscale is stopped." makes
\* status() return DaemonStopped (no peer list, no ParseError); any other
\* successful output never gives DaemonStopped.
C4_StoppedLiteralIsDaemonStopped ==
    (op = "Tailscale::status" /\ Cmd.spawned /\ Cmd.success) =>
        IF Trim(Cmd.stdout) = "Tailscale is stopped."
        THEN ~ret.ok /\ ret.err = "DaemonStopped"
        ELSE ret.err # "DaemonStopped"

\* the stopped literal, followed by a line ending, was answered DaemonStopped
C4_Witness ==
    /\ op = "Tailscale::status" /\ Cmd.spawned /\ Cmd.success
    /\ Cmd.stdout = "Tailscale is stopped.\n"
    /\ ret = Err("DaemonStopped", "")

\* C6: is_enabled() on a non-zero exit gives Ok(false) when stderr contains
\* "Tailscale is not running" or "Cannot connect to the Tailscale daemon" and
\* Err(CommandFailed(stderr)) otherwise; on a zero exit it gives
\* Ok(trimmed stdout # "Tailscale is stopped."), whatever stderr holds.
C6_IsEnabledByExitAndStderr ==
    (op = "Tailscale::is_enabled" /\ Cmd.spawned) =>
        IF Cmd.success
        THEN ret = Ok(Trim(Cmd.stdout) # "Tailscale is stopped.")
        ELSE IF \/ Contains(Cmd.stderr, "Tailscale is not running")
                \/ Contains(Cmd.stderr, "Cannot connect to the Tailscale daemon")
             THEN ret = Ok(FALSE)
             ELSE ret = Err("CommandFailed", Cmd.stderr)

\* a non-zero exit whose stderr reports the daemon unreachable gave Ok(false)
C6_Witness ==
    /\ op = "Tailscale::is_enabled" /\ Cmd.spawned /\ ~Cmd.success
    /\ Contains(Cmd.stderr, "Cannot connect to the Tailscale daemon")
    /\ ret = Ok(FALSE)

\* the trimmed values of the lines of text that, trimmed, start with key
KeyValues(text, key) ==
    LET ls == Lines(text)
        hits == SelectSeq(ls, LAMBDA l : StartsWith(Trim(l), key))
    IN  [i \in DOMAIN hits |->
            Trim(SubSeq(Trim(hits[i]), Len(key) + 1, Len(Trim(hits[i]))))]

DockerStatusReturned == op = "Docker::status" /\ Cmd.spawned

\* C2, as stated: every "Active:" line whose value holds "(running)" makes
\* is_active true and active_state that value, every other "Active:" line
\* makes is_active false, in texts with any number of "Active:" lines.
C2_AsStated ==
    DockerStatusReturned =>
        LET vs == KeyValues(Cmd.stdout, "Active:") IN
        /\ ret.ok
        /\ \A i \in DOMAIN vs :
              IF Contains(vs[i], "(running)")
              THEN ret.val.is_active /\ ret.val.active_state = vs[i]
              ELSE ~ret.val.is_active

\* C2, amended: the last "Active:" line of the text decides: active_state is
\* its trimmed value and is_active is "that value contains (running)"; with
\* no "Active:" line is_active is false and active_state is empty.
C2_LastActiveLineDecides ==
    DockerStatusReturned =>
        LET vs == KeyValues(Cmd.stdout, "Active:") IN
        /\ ret.ok
        /\ IF vs = <<>>
           THEN ~ret.val.is_active /\ ret.val.active_state = ""
           ELSE /\ ret.val.active_state = Last(vs)
                /\ ret.val.is_active = Contains(Last(vs), "(running)")

\* a running line with a date after it came last, after a line that was not running
C2_Witness ==
    /\ DockerStatusReturned /\ ret.ok
    /\ LET vs == KeyValues(Cmd.stdout, "Active:") IN
       /\ Len(vs) = 2
       /\ vs[1] = "inactive (dead)"
       /\ vs[2] = "active (running) since Mon"
    /\ ret.val.is_active
    /\ ret.val.active_state = "active (running) since Mon"

\* the first token of a "Main PID:" value, "" when the value is empty
FirstToken(v) == IF SplitWhitespace(v) = <<>> THEN "" ELSE SplitWhitespace(v)[1]

\* C3, as stated: every "Main PID:" line whose first token is an unsigned
\* integer makes main_pid that integer, every "Main PID:" line whose first
\* token is none makes main_pid None, a text without the line gives None, and
\* the call returns Ok.
C3_AsStated ==
    DockerStatusReturned =>
        LET vs == KeyValues(Cmd.stdout, "Main PID:") IN
        /\ ret.ok
        /\ vs = <<>> => ret.val.main_pid = None
        /\ \A i \in DOMAIN vs :
              /\ vs[i] = "4821 (dockerd)" => ret.val.main_pid = Some("4821")
              /\ vs[i] = "notanumber" => ret.val.main_pid = None

\* C3, amended: the last "Main PID:" line of the text decides: main_pid is the
\* first token of its value parsed as an unsigned 32-bit integer, None when
\* that fails; a text without the line gives None; the call returns Ok.
C3_LastPidLineDecides ==
    DockerStatusReturned =>
        LET vs == KeyValues(Cmd.stdout, "Main PID:") IN
        /\ ret.ok
        /\ vs = <<>> => ret.val.main_pid = None
        /\ vs # <<>> =>
              /\ ret.val.main_pid = ParseU32(FirstToken(Last(vs)))
              /\ Last(vs) = "4821 (dockerd)" => ret.val.main_pid = Some("4821")
              /\ Last(vs) = "notanumber" => ret.val.main_pid = None
              /\ Last(vs) = "4294967296 (big)" => ret.val.main_pid = None

\* a valid line came last, after a line that does not hold a number
C3_Witness ==
    /\ DockerStatusReturned /\ ret.ok
    /\ LET vs == KeyValues(Cmd.stdout, "Main PID:") IN
       /\ Len(vs) = 2
       /\ vs[1] = "notanumber"
       /\ vs[2] = "4821 (dockerd)"
    /\ ret.val.main_pid = Some("4821")

\* C7: Docker::status returns Ok with the fields parsed whatever the exit code
\* of the command; its only error is the spawn failure.
C7_StatusIgnoresExitCode ==
    op = "Docker::status" =>
        /\ ret.ok = Cmd.spawned
        /\ ~ret.ok => ret.err = "CommandError"
        /\ ret.ok =>
              /\ ret.val.raw_output = Cmd.stdout
              /\ (KeyValues(Cmd.stdout, "Active:") # <<>>) => ret.val.active_state # ""
              /\ (KeyValues(Cmd.stdout, "Mem peak:") # <<>>) => ret.val.memory_peak # None
              /\ (KeyValues(Cmd.stdout, "Loaded:") # <<>>) => ret.val.loaded_state # ""

\* a non-zero exit was parsed: an inactive service with its "Loaded:" line
C7_Witness ==
    /\ op = "Docker::status" /\ Cmd.spawned /\ ~Cmd.success
    /\ ret.ok
    /\ ret.val.active_state = "inactive (dead)" /\ ~ret.val.is_active
    /\ ret.val.loaded_state = "loaded (/lib/docker.service)"

IsToggle == op \in {"Tailscale::toggle", "Docker::toggle"}

\* the state the toggle's query found, FALSE when the query failed
QueriedState ==
    IF op = "Tailscale::toggle"
    THEN UnwrapOr(TsIsEnabled(Cmd), FALSE)
    ELSE UnwrapOr(DkIsActive(Cmd), FALSE)

QueryFailed ==
    IF op = "Tailscale::toggle" THEN ~TsIsEnabled(Cmd).ok ELSE ~DkIsActive(Cmd).ok

StartCmdOf == IF op = "Tailscale::toggle" THEN UpCmd ELSE DkStartCmd
StopCmdOf == IF op = "Tailscale::toggle" THEN DownCmd ELSE DkStopCmd
QueryCmdOf == IF op = "Tailscale::toggle" THEN StatusCmd ELSE DkStatusCmd

\* the toggle ran its query, then exactly one command: stop when the query
\* found the service on, start when it found it off or failed
QueryThenOneCommand ==
    /\ Len(runs) = 2
    /\ runs[1].cmd = QueryCmdOf
    /\ runs[2].cmd = IF QueriedState THEN StopCmdOf ELSE StartCmdOf
    /\ ret = (IF runs[2].out.spawned /\ runs[2].out.success THEN Ok(<<>>)
              ELSE IF runs[2].out.spawned THEN Err("CommandFailed", runs[2].out.stderr)
              ELSE Err("CommandError", ""))

\* C5, as stated: for Tailscale and for Docker, toggle() queries the state,
\* takes a failed query as false, and then runs exactly one of start and stop.
C5_AsStated == IsToggle => QueryThenOneCommand

\* C5, amended: Tailscale::toggle does so; Docker::toggle does so when its
\* query succeeds, and when the query fails it returns the query's error and
\* runs neither start nor stop.
C5_TailscaleDefaultsDockerPropagates ==
    IsToggle =>
        IF op = "Docker::toggle" /\ QueryFailed
        THEN /\ Len(runs) = 1 /\ runs[1].cmd = DkStatusCmd
             /\ ~ret.ok /\ ret.err = "CommandError"
        ELSE QueryThenOneCommand

\* Tailscale::toggle ran `tailscale up` after a query that failed
C5_Witness ==
    /\ op = "Tailscale::toggle"
    /\ QueryFailed
    /\ Len(runs) = 2 /\ runs[2].cmd = UpCmd /\ ret.ok

(***************************************************************************)
(* Properties of the window, checked under SpecApp                         *)
(***************************************************************************)
\* C9: after every update_tailscale_state, a window that is not enabled shows
\* no machine at all, and an enabled one shows the peer list status() parsed:
\* one row per peer, online or offline, in the same order (no row when
\* status() failed).
C9_RowsAreTheParsedPeers ==
    pc = "run" =>
        /\ ~is_on => (machines = <<>> /\ shown = None)
        /\ is_on =>
              /\ shown # None
              /\ LET parsed == TsStatus(shown[1]) IN
                 IF parsed.ok
                 THEN /\ machines = parsed.val
                      /\ Len(machines) = Len(PeerLines(shown[1].stdout))
                      /\ \A i \in DOMAIN machines :
                            machines[i] \in {ExpectedPeer(p) : p \in Range(PeerLines(shown[1].stdout))}
                 ELSE machines = <<>>

\* an enabled window shows three peers, an offline one among them
C9_Witness ==
    /\ pc = "run" /\ is_on
    /\ Len(machines) = 3
    /\ \E i \in DOMAIN machines : ~machines[i].online
    /\ \E i \in DOMAIN machines : machines[i].online

(***************************************************************************)
(* Properties of the Event Bridge, checked under SpecBridge                *)
(***************************************************************************)
\* C8: the consumer processes the messages in the order they were sent, none
\* dropped or duplicated, and processes nothing after Quit.
C8_SendOrderUntilQuit ==
    /\ Len(consumed) <= Len(sent)
    /\ consumed = SubSeq(sent, 1, Len(consumed))
    /\ running => consumed \o chan = sent
    /\ \A i \in 1..(Len(consumed) - 1) : consumed[i].msg # "Quit"
    /\ running = (consumed = <<>> \/ Last(consumed).msg # "Quit")

\* Refresh, Toggle, Quit, sent by two producers, were processed in that order,
\* and a message sent after Quit stays unprocessed
C8_Witness ==
    /\ ~running
    /\ [i \in DOMAIN consumed |-> consumed[i].msg] = <<"Refresh", "Toggle", "Quit">>
    /\ consumed[1].from # consumed[2].from
    /\ Len(sent) = 4 /\ Len(chan) = 1

====
